---- MODULE Spec2Model ----
(***************************************************************************)
(* A model of the relay synchronisation pass of the vauchi CLI             *)
(* (src/src/commands/sync.rs).  One pass is the body of `run`: open the    *)
(* local store, connect, handshake, settle, drain the relay queue, apply   *)
(* the three collected lists, send the pending updates and the device-sync *)
(* fan-out, close and report.  The model keeps one step per blocking       *)
(* network operation and one step per item of each applier loop.           *)
(*                                                                         *)
(* Strings of the wire are kept as short model strings; StrLen gives the   *)
(* length the code's slices see.                                           *)
(***************************************************************************)
EXTENDS Integers, Sequences, FiniteSets, TLC

(* ------------------------------------------------------------------ *)
(* Bounds                                                              *)
(* ------------------------------------------------------------------ *)
MaxFrames == 2     \* frames the relay delivers in one pass
MaxPasses == 2     \* passes run one after the other on the same store
MaxPending == 2    \* card_delta entries in the initial pending store
MaxImports == 2    \* runs of import_local_identity by other commands
MaxWait == 6       \* time units a blocking connect is watched for

(* ------------------------------------------------------------------ *)
(* Values                                                              *)
(* ------------------------------------------------------------------ *)
Keys == {"a", "b"}              \* canonical (lower-case hex) 32-byte keys
Devices == {"self", "d1", "d2", "d3"} \* devices a registry can hold

\* Length in bytes of a wire string, as seen by the &s[..n] slices.
StrLen(s) ==
    CASE s \in {"a", "b", "A", "d1", "d2", "d3", "dx", "self"} -> 64
      [] s = "m1" -> 36
      [] s = "badhex" -> 20
      [] s = "shrt" -> 3
      [] OTHER -> 0

\* &s[..n] panics when n is past the end of s.
SliceOk(s, n) == StrLen(s) >= n

\* hex::decode followed by the `bytes.len() == 32` guard: the key bytes, or
\* "none".  Upper-case hex decodes to the same bytes as lower-case hex.
HexDecode32(s) ==
    CASE s \in {"a", "A"} -> "ka"
      [] s = "b" -> "kb"
      [] s = "d1" -> "kd1"
      [] s = "d2" -> "kd2"
      [] s = "d3" -> "kd3"
      [] s = "dx" -> "kdx"
      [] s = "self" -> "kself"
      [] OTHER -> "none"

\* hex::encode: always lower case.
HexEncode(k) ==
    CASE k = "ka" -> "a"
      [] k = "kb" -> "b"
      [] k = "kd1" -> "d1"
      [] k = "kd2" -> "d2"
      [] k = "kd3" -> "d3"
      [] k = "kdx" -> "dx"
      [] k = "kself" -> "self"
      [] OTHER -> "-"

(* ------------------------------------------------------------------ *)
(* Inbound frames                                                      *)
(* ------------------------------------------------------------------ *)
\* One websocket read.  kind: "garbage" (binary, decode_message fails),
\* "update" (EncryptedUpdate), "ack", "devsync", "devack", "other" (a
\* payload kind of the `_ => {}` arm), "ping", "text", "close", "ioerr".
\* ct: "exch" (is_exchange and from_bytes gives Some), "exchbad"
\* (is_exchange, from_bytes gives None), "card".
NoFrame ==
    [kind |-> "none", mid |-> "-", sender |-> "-", ct |-> "-",
     idkey |-> "-", eph |-> "-", resp |-> FALSE, name |-> "-",
     x3dh |-> "-", outcome |-> "-", dev |-> "-", dec |-> "-",
     items |-> <<>>, ver |-> 0]

BaseFrame ==
    [kind |-> "text", mid |-> "m1", sender |-> "-", ct |-> "-",
     idkey |-> "-", eph |-> "-", resp |-> FALSE, name |-> "-",
     x3dh |-> "-", outcome |-> "-", dev |-> "-", dec |-> "-",
     items |-> <<>>, ver |-> 0]

ExchangeFrame(key, eph, resp, name) ==
    [BaseFrame EXCEPT !.kind = "update", !.sender = "a", !.ct = "exch",
                      !.idkey = key, !.eph = eph, !.resp = resp,
                      !.name = name, !.x3dh = "ok"]

CardFrame(sender, outcome) ==
    [BaseFrame EXCEPT !.kind = "update", !.sender = sender, !.ct = "card",
                      !.outcome = outcome]

\* dec: "ok", "decrypt_err", "parse_err", "process_err".
DevSyncFrame(dev, dec, items) ==
    [BaseFrame EXCEPT !.kind = "devsync", !.dev = dev, !.dec = dec,
                      !.items = items, !.ver = 1]

Item(type, cid) == [type |-> type, cid |-> cid, val |-> "-"]

\* SyncItem::CardUpdated { field_label, new_value }, for one field of the
\* own card.
CardItem(val) == [type |-> "CardUpdated", cid |-> "-", val |-> val]

Frames ==
    { [BaseFrame EXCEPT !.kind = "garbage"],
      [BaseFrame EXCEPT !.kind = "text"],
      [BaseFrame EXCEPT !.kind = "ping"],
      [BaseFrame EXCEPT !.kind = "close"],
      [BaseFrame EXCEPT !.kind = "ioerr"],
      [BaseFrame EXCEPT !.kind = "other"],
      [BaseFrame EXCEPT !.kind = "ack"],
      [BaseFrame EXCEPT !.kind = "ack", !.mid = "shrt"],
      [BaseFrame EXCEPT !.kind = "devack"],
      ExchangeFrame("a", "ok", FALSE, "n1"),
      ExchangeFrame("A", "ok", FALSE, "n1"),
      ExchangeFrame("b", "ok", FALSE, "n2"),
      ExchangeFrame("a", "bad", FALSE, "n1"),
      ExchangeFrame("badhex", "ok", FALSE, "n1"),
      ExchangeFrame("a", "ok", TRUE, "n1"),
      ExchangeFrame("a", "ok", TRUE, "n2"),
      ExchangeFrame("a", "ok", TRUE, ""),
      [ExchangeFrame("b", "ok", FALSE, "n2") EXCEPT !.x3dh = "fail"],
      [BaseFrame EXCEPT !.kind = "update", !.sender = "a", !.ct = "exchbad"],
      CardFrame("a", "changed"),
      CardFrame("a", "same"),
      CardFrame("a", "err"),
      CardFrame("b", "changed"),
      CardFrame("shrt", "changed"),
      DevSyncFrame("d1", "ok", <<Item("ContactAdded", "b")>>),
      DevSyncFrame("d1", "ok",
                   <<Item("ContactAdded", "b"), Item("ContactAdded", "b")>>),
      DevSyncFrame("d1", "ok", <<Item("ContactRemoved", "a")>>),
      DevSyncFrame("d1", "ok", <<Item("VisibilityChanged", "shrt")>>),
      DevSyncFrame("d1", "ok", <<>>),
      DevSyncFrame("d1", "ok", <<CardItem("v1")>>),
      DevSyncFrame("d1", "ok", <<CardItem("v1"), CardItem("v1")>>),
      DevSyncFrame("d1", "decrypt_err", <<Item("ContactAdded", "b")>>),
      DevSyncFrame("d1", "parse_err", <<Item("ContactAdded", "b")>>),
      DevSyncFrame("d1", "process_err", <<Item("ContactAdded", "b")>>),
      DevSyncFrame("d2", "ok", <<Item("ContactAdded", "b")>>),
      DevSyncFrame("dx", "ok", <<Item("ContactAdded", "b")>>),
      DevSyncFrame("badhex", "ok", <<>>),
      DevSyncFrame("shrt", "ok", <<>>) }

\* The frames of the runs of several passes: the ones a relay redelivers
\* and the ones whose application must be idempotent.
RepeatFrames ==
    { ExchangeFrame("a", "ok", FALSE, "n1"),
      ExchangeFrame("A", "ok", FALSE, "n1"),
      DevSyncFrame("d1", "ok", <<Item("ContactAdded", "b")>>),
      DevSyncFrame("d1", "ok",
                   <<Item("ContactAdded", "b"), Item("ContactAdded", "b")>>),
      DevSyncFrame("d1", "ok", <<Item("ContactRemoved", "a")>>) }

(* ------------------------------------------------------------------ *)
(* State                                                               *)
(* ------------------------------------------------------------------ *)
VARIABLES
    \* persistent local state (survives from pass to pass)
    initialized,    \* config.is_initialized(): the identity file exists
    idFile,         \* the identity file: the password it is encrypted under
    contacts,       \* contact store: id -> [n, name, card, ratchet, rx]
    pendingStore,   \* pending-update store: set of [id, contact, type, payload]
    registry,       \* "none", "single" (this device only) or "multi"
    synced,         \* device -> version it was marked synced up to
    fanout,         \* contact ids recorded for device fan-out
    ownCard,        \* the value of the field of the own card, or "none"
    \* history kept over the passes
    respLog,        \* the calls of send_exchange_response: [to, pass, res]
    removalSeen,    \* contact ids a ContactRemoved item was applied for
    \* one pass
    pass,           \* number of the pass
    importLog,      \* the runs of import_local_identity, in order
    connectWait,    \* time units the pass has been blocked in connect
    pc,             \* position in run
    wbOpen,         \* the Vauchi handle `wb` is alive
    conns,          \* relay connections opened by this pass
    sockOpen,       \* connections currently open and not closed
    netLog,         \* frames sent and connections opened, in order
    nRead,          \* frames delivered by the relay so far
    lastRead,       \* the frame of the last read
    received,
    exchange_messages,
    card_updates,
    device_sync_messages,
    contacts_added,
    contacts_updated,
    cards_updated,
    device_syncs_processed,
    cardWrites,     \* save_own_card calls of this pass
    updates_sent,
    device_syncs_sent,
    warnings,       \* the display::warning calls of this pass, in order
    collectedStore, \* the pending-update store when the send loop began
    outQueue,       \* entries the send loop still has to visit
    sendLog,        \* send outcome of each visited entry
    devQueue,       \* devices send_device_sync still has to visit
    devLog,         \* send outcome of each visited device
    summary         \* what the pass reported

collected == <<exchange_messages, card_updates, device_sync_messages>>

vars ==
    <<initialized, idFile, contacts, pendingStore, registry, synced, fanout,
      pass, importLog, connectWait, pc, wbOpen, conns, sockOpen, netLog,
      nRead, lastRead, received,
      exchange_messages, card_updates, device_sync_messages, contacts_added,
      contacts_updated, cards_updated, device_syncs_processed, updates_sent,
      device_syncs_sent, warnings, collectedStore, outQueue, sendLog, devQueue,
      summary, ownCard, cardWrites, devLog, respLog, removalSeen>>

NoContact == [n |-> 0, name |-> "-", card |-> "-", ratchet |-> FALSE, rx |-> 0]

PendingEntry(i, c, t) == [id |-> i, contact |-> c, type |-> t, payload |-> i]

InitialPending ==
    {PendingEntry(i, "a", "card_delta") : i \in 1..MaxPending}
        \cup {PendingEntry(MaxPending + 1, "a", "label_sync")}

\* Devices of a registry that are revoked (is_active() false).
Revoked == {"d2"}

\* The identity files an installation can hold: none, one written by an old
\* version (under the hardcoded password), one written under the
\* per-installation password, one that opens under neither.
IdentityFiles == {"absent", "legacy", "install", "foreign"}

Init ==
    /\ idFile \in IdentityFiles
    /\ initialized = (idFile # "absent")
    /\ importLog = <<>>
    /\ connectWait = 0
    /\ contacts \in
         { [k \in Keys |-> NoContact],
           [k \in Keys |->
              IF k = "a"
                THEN [n |-> 1, name |-> "n1", card |-> "new",
                      ratchet |-> TRUE, rx |-> 0]
                ELSE NoContact] }
    /\ pendingStore \in {{}, InitialPending}
    /\ registry \in {"none", "single", "multi"}
    /\ synced = [d \in Devices |-> 0]
    /\ fanout = {}
    /\ pass = 1
    /\ pc = "start"
    /\ wbOpen = FALSE
    /\ conns = 0
    /\ sockOpen = {}
    /\ netLog = <<>>
    /\ nRead = 0
    /\ lastRead = NoFrame
    /\ received = 0
    /\ exchange_messages = <<>>
    /\ card_updates = <<>>
    /\ device_sync_messages = <<>>
    /\ contacts_added = 0
    /\ contacts_updated = 0
    /\ cards_updated = 0
    /\ device_syncs_processed = 0
    /\ updates_sent = 0
    /\ device_syncs_sent = 0
    /\ warnings = <<>>
    /\ collectedStore = {}
    /\ outQueue = <<>>
    /\ sendLog = <<>>
    /\ devQueue = <<>>
    /\ devLog = <<>>
    /\ ownCard = "v0"
    /\ respLog = <<>>
    /\ removalSeen = {}
    /\ cardWrites = 0
    /\ summary = "-"


(* ------------------------------------------------------------------ *)
(* Helpers                                                             *)
(* ------------------------------------------------------------------ *)
identityFile == <<initialized, idFile>>
history == <<respLog, removalSeen>>
persist ==
    <<identityFile, ownCard, contacts, pendingStore, registry, synced, fanout,
      history>>
passVars == <<pass, importLog, connectWait>>
net == <<conns, sockOpen, netLog>>
drainVars ==
    <<nRead, lastRead, received, exchange_messages, card_updates,
      device_sync_messages>>
applyCounters ==
    <<contacts_added, contacts_updated, cards_updated, device_syncs_processed,
      cardWrites>>
sendVars ==
    <<updates_sent, device_syncs_sent, collectedStore, outQueue, sendLog,
      devQueue, devLog>>

\* One entry of netLog: what was done, on which connection, in which phase.
Ev(op, conn, kind, ref) ==
    [op |-> op, conn |-> conn, kind |-> kind, ref |-> ref, phase |-> pc]

\* wb.get_contact(id) is Some.
ContactKnown(cs, id) == id \in DOMAIN cs /\ cs[id].n > 0

\* registry.all_devices()
RegistryDevices(r) ==
    CASE r = "none" -> {}
      [] r = "single" -> {"self"}
      [] OTHER -> Devices

\* registry.find_device(id) is Some.
find_device(r, k) == HexEncode(k) \in RegistryDevices(r)

\* A run that returns early without giving its socket up.
leak_socket(open) == open

\* `socket` goes out of scope (an early return through `?`, or the unwinding
\* of a panic): the stream is dropped, which closes it.
drop_socket(open) == {}

\* The run unwinds on a panic: the handle and the socket are dropped.
Panic ==
    /\ pc' = "panicked"
    /\ wbOpen' = FALSE
    /\ sockOpen' = drop_socket(sockOpen)
    /\ summary' = "panic"

(* ------------------------------------------------------------------ *)
(* The identity file (config.rs)                                       *)
(* ------------------------------------------------------------------ *)
\* const LOCAL_STORAGE_PASSWORD of sync.rs and LEGACY_BACKUP_PASSWORD of
\* config.rs are the same string, "vauchi-local-storage".
LOCAL_STORAGE_PASSWORD == "legacy"
LEGACY_BACKUP_PASSWORD == "legacy"

\* config.backup_password(): the per-installation password, the same on every
\* call.
backup_password == "install"

\* identity.export_backup(password): a file that opens under this password.
export_backup(password) == password

\* Identity::import_backup(&backup, password) is Ok: the file was written
\* under this password.  No password opens a missing or a foreign file.
import_backup(file, password) ==
    file \in {"legacy", "install"} /\ file = password

\* An import whose legacy fallback does not write the file back.
identity_file_after_import_norewrite(file) == file

\* The identity file after import_local_identity: rewritten under the
\* per-installation password when only the legacy password opened it.
identity_file_after_import(file) ==
    IF import_backup(file, backup_password)
      THEN file
      ELSE IF import_backup(file, LEGACY_BACKUP_PASSWORD)
        THEN export_backup(backup_password)
        ELSE file

\* config.import_local_identity(), run by another command between two passes.
import_local_identity ==
    /\ pc = "start"
    /\ Len(importLog) < MaxImports
    /\ idFile' = identity_file_after_import(idFile)
    /\ importLog' =
         Append(importLog,
                [before |-> idFile,
                 res |-> IF \/ import_backup(idFile, backup_password)
                            \/ import_backup(idFile, LEGACY_BACKUP_PASSWORD)
                           THEN "ok" ELSE "err",
                 wrote |-> /\ ~import_backup(idFile, backup_password)
                           /\ import_backup(idFile, LEGACY_BACKUP_PASSWORD)])
    /\ UNCHANGED <<initialized, ownCard, history, contacts, pendingStore,
                   registry, synced, fanout, pass, connectWait, pc, wbOpen, net, drainVars,
                   applyCounters, sendVars, warnings, summary>>

(* ------------------------------------------------------------------ *)
(* run, up to the drain loop                                           *)
(* ------------------------------------------------------------------ *)
\* An open_vauchi without the is_initialized guard.
open_vauchi_unguarded ==
    /\ pc = "start"
    /\ pc' = "connect"
    /\ wbOpen' = TRUE
    /\ UNCHANGED <<persist, passVars, net, drainVars, applyCounters, sendVars,
                   warnings, summary>>

open_vauchi ==
    /\ pc = "start"
    /\ IF ~initialized
         THEN /\ pc' = "failed"
              /\ summary' = "not_initialized"
              /\ wbOpen' = FALSE
         ELSE IF ~import_backup(idFile, LOCAL_STORAGE_PASSWORD)
           THEN /\ pc' = "failed"
                /\ summary' = "identity_error"
                /\ wbOpen' = FALSE
           ELSE /\ pc' = "connect"
                /\ wbOpen' = TRUE
                /\ UNCHANGED summary
    /\ UNCHANGED <<persist, passVars, net, drainVars, applyCounters, sendVars,
                   warnings>>

\* connect(&config.relay_url)?
Connect ==
    /\ pc = "connect"
    /\ \E ok \in BOOLEAN :
         IF ok
           THEN /\ conns' = conns + 1
                /\ sockOpen' = sockOpen \cup {conns + 1}
                /\ netLog' = Append(netLog, Ev("connect", conns + 1, "-", "-"))
                /\ pc' = "handshake"
                /\ UNCHANGED <<wbOpen, summary>>
           ELSE /\ pc' = "failed"
                /\ wbOpen' = FALSE
                /\ summary' = "connect_error"
                /\ UNCHANGED net
    /\ connectWait' = 0
    /\ UNCHANGED <<persist, pass, importLog, drainVars, applyCounters,
                   sendVars, warnings>>

\* One more time unit goes by inside the blocking connect: the call has no
\* timeout of its own, so the pass stays in it until the relay answers or
\* the operating system gives the connection up.
ConnectWait ==
    /\ pc = "connect"
    /\ connectWait < MaxWait
    /\ connectWait' = connectWait + 1
    /\ UNCHANGED <<persist, pass, importLog, pc, wbOpen, net, drainVars,
                   applyCounters, sendVars, warnings, summary>>

\* send_handshake(&mut socket, &client_id, Some(&device_id_hex))?
\* The fields of the Handshake a connection starts with: the client id, and
\* the device id when one is passed.
HandshakeFields(with_device) ==
    IF with_device THEN "client_id+device_id" ELSE "client_id"

send_handshake ==
    /\ pc = "handshake"
    /\ \E ok \in BOOLEAN :
         IF ok
           THEN /\ netLog' = Append(netLog, Ev("send", 1, "handshake",
                                          HandshakeFields(TRUE)))
                /\ pc' = "settle"
                /\ UNCHANGED <<wbOpen, summary, sockOpen>>
           ELSE /\ pc' = "failed"
                /\ wbOpen' = FALSE
                /\ sockOpen' = drop_socket(sockOpen)
                /\ summary' = "handshake_error"
                /\ UNCHANGED netLog
    /\ UNCHANGED <<persist, passVars, conns, drainVars, applyCounters, sendVars,
                   warnings>>

\* A run that calls the card-update applier before the exchange applier.
phase_after_cards_first(phase) ==
    CASE phase = "drain" -> "applyCards"
      [] phase = "applyCards" -> "applyExchange"
      [] phase = "applyExchange" -> "applyDevSync"

\* The order in which run calls the appliers on what receive_pending
\* returned: process_exchange_messages, process_card_updates,
\* process_device_sync_messages.
phase_after(phase) ==
    CASE phase = "drain" -> "applyExchange"
      [] phase = "applyExchange" -> "applyCards"
      [] phase = "applyCards" -> "applyDevSync"

\* std::thread::sleep(500 ms)
Settle ==
    /\ pc = "settle"
    /\ pc' = "drain"
    /\ UNCHANGED <<persist, passVars, wbOpen, net, drainVars, applyCounters,
                   sendVars, warnings, summary>>

(* ------------------------------------------------------------------ *)
(* receive_pending: one iteration of the drain loop                    *)
(* ------------------------------------------------------------------ *)
\* decode_message(&data) is Ok.
DecodeOk(f) == f.kind # "garbage"

\* A drain loop that counts a frame before it decodes it.
CountsBeforeDecode(f) == f.kind \in {"garbage", "update", "devsync"}

\* The frame is counted in `received`.
CountsAsReceived(f) == DecodeOk(f) /\ f.kind \in {"update", "devsync"}

\* The slice the arm of this frame takes does not panic.
DrainSliceOk(f) ==
    CASE f.kind = "update" /\ f.ct = "card" -> SliceOk(f.sender, 8)
      [] f.kind = "ack" -> SliceOk(f.mid, 8)
      [] f.kind = "devsync" -> SliceOk(f.dev, 16)
      [] f.kind = "devack" -> SliceOk(f.mid, 8)
      [] OTHER -> TRUE

\* What the iteration sends on the socket: an ack, a pong, or nothing.
DrainReply(f) ==
    CASE f.kind = "update" -> <<Ev("send", 1, "ack", f.mid)>>
      [] f.kind = "devsync" -> <<Ev("send", 1, "devack", f.mid)>>
      [] f.kind = "ping" -> <<Ev("send", 1, "pong", "-")>>
      [] OTHER -> <<>>

\* The loop ends after this read.
DrainBreaks(f) == f.kind \in {"close", "ioerr"}

\* The warning of the iteration, if it prints one.
DrainWarning(f) ==
    CASE f.kind = "garbage" -> <<"decode">>
      [] f.kind = "ioerr" -> <<"connection">>
      [] OTHER -> <<>>

\* A drain loop that applies a card update as soon as it has read it.
receive_frame_applying(f) ==
    /\ nRead' = nRead + 1
    /\ lastRead' = f
    /\ received' = received + 1
    /\ contacts' =
         IF f.kind = "update" /\ f.ct = "card" /\ ContactKnown(contacts, f.sender)
           THEN [contacts EXCEPT ![f.sender].card = "upd"]
           ELSE contacts
    /\ UNCHANGED <<identityFile, ownCard, history, pendingStore, registry, synced, fanout,
                   passVars, pc, wbOpen, net, collected, applyCounters,
                   sendVars, warnings, summary>>

receive_frame(f) ==
    /\ nRead' = nRead + 1
    /\ lastRead' = f
    /\ received' = IF CountsAsReceived(f) THEN received + 1 ELSE received
    /\ IF ~DrainSliceOk(f)
         THEN /\ Panic
              /\ UNCHANGED <<collected, netLog, warnings>>
         ELSE /\ exchange_messages' =
                   IF f.kind = "update" /\ f.ct = "exch"
                     THEN Append(exchange_messages, f)
                     ELSE exchange_messages
              /\ card_updates' =
                   IF f.kind = "update" /\ f.ct = "card"
                     THEN Append(card_updates, f)
                     ELSE card_updates
              /\ device_sync_messages' =
                   IF f.kind = "devsync"
                     THEN Append(device_sync_messages, f)
                     ELSE device_sync_messages
              /\ netLog' = netLog \o DrainReply(f)
              /\ warnings' = warnings \o DrainWarning(f)
              /\ pc' = IF DrainBreaks(f) THEN phase_after("drain") ELSE "drain"
              /\ UNCHANGED <<wbOpen, sockOpen, summary>>
    /\ UNCHANGED <<persist, passVars, conns, applyCounters, sendVars>>

receive_pending ==
    /\ pc = "drain"
    /\ nRead < MaxFrames
    /\ \E f \in Frames : receive_frame(f)

\* The same loop under a relay that redelivers frames it delivered before.
receive_redelivered ==
    /\ pc = "drain"
    /\ nRead < MaxFrames
    /\ \E f \in RepeatFrames : receive_frame(f)

\* Err(Io(WouldBlock)): the read timed out with no frame.  The read timeout
\* is the one run set on the stream, which it does for a plain stream only.
receive_timeout ==
    /\ pc = "drain"
    /\ pc' = phase_after("drain")
    /\ lastRead' = NoFrame
    /\ UNCHANGED <<persist, passVars, wbOpen, net, nRead, received, collected,
                   applyCounters, sendVars, warnings, summary>>

\* The stream is a TLS stream (a wss:// relay, the default): run set no read
\* timeout on it, and once the relay has nothing more to deliver and keeps
\* the connection open, socket.read() does not return.
receive_blocked ==
    /\ pc = "drain"
    /\ pc' = "blocked"
    /\ lastRead' = NoFrame
    /\ UNCHANGED <<persist, passVars, wbOpen, net, nRead, received, collected,
                   applyCounters, sendVars, warnings, summary>>

(* ------------------------------------------------------------------ *)
(* process_exchange_messages: one iteration of its loop                *)
(* ------------------------------------------------------------------ *)
\* An exchange applier without the duplicate check.
already_contact_unchecked(cs, id) == FALSE

\* `if wb.get_contact(&public_id)?.is_some()`: the sender is already a contact.
already_contact(cs, id) == ContactKnown(cs, id)

\* Contact::from_exchange + wb.add_contact: one more contact with this id.
add_contact(cs, id, name, card) ==
    [cs EXCEPT ![id] = [n |-> @.n + 1, name |-> name, card |-> card,
                        ratchet |-> FALSE, rx |-> 0]]

\* record_contact_for_device_sync: recorded only with more than one device.
record_contact_for_device_sync(r, fo, id) ==
    IF Cardinality(RegistryDevices(r)) > 1 THEN fo \cup {id} ELSE fo

\* A response sent on a connection that was not introduced by a handshake.
send_exchange_response_bare(r, to) ==
    IF r = "connfail"
      THEN /\ UNCHANGED net
      ELSE /\ conns' = conns + 1
           /\ sockOpen' = sockOpen
           /\ netLog' =
                netLog \o
                  <<Ev("connect", conns + 1, "-", "-"),
                    Ev("send", conns + 1, "response", to),
                    Ev("close", conns + 1, "-", "-")>>

\* How far send_exchange_response gets: connect fails, the handshake send
\* fails, the response send fails, or all of it is done.
ResponseOutcomes == {"connfail", "hsfail", "sendfail", "ok"}

\* send_exchange_response: a connection of its own, a handshake without
\* device id, the response, a close.  r is how far it gets.
send_exchange_response(r, to) ==
    IF r = "connfail"
      THEN /\ UNCHANGED net
      ELSE /\ conns' = conns + 1
           /\ sockOpen' = sockOpen
           /\ netLog' =
                netLog \o
                  <<Ev("connect", conns + 1, "-", "-")>> \o
                  (IF r = "hsfail"
                     THEN <<>>
                     ELSE <<Ev("send", conns + 1, "handshake",
                               HandshakeFields(FALSE))>>) \o
                  (IF r = "ok"
                     THEN <<Ev("send", conns + 1, "response", to),
                            Ev("close", conns + 1, "-", "-")>>
                     ELSE <<Ev("drop", conns + 1, "-", "-")>>)

exchange_skip(warn) ==
    /\ warnings' = IF warn # "-" THEN Append(warnings, warn) ELSE warnings
    /\ UNCHANGED <<persist, net, applyCounters>>

\* contact.set_display_name(name) is Ok: the name is one a contact may have.
set_display_name_ok(name) == name # ""

\* A response branch that writes the name without comparing it.
exchange_response_unconditional(e, public_id) ==
    IF ContactKnown(contacts, public_id)
      THEN /\ contacts' = [contacts EXCEPT ![public_id].name = e.name]
           /\ contacts_updated' = contacts_updated + 1
           /\ UNCHANGED <<identityFile, ownCard, history, pendingStore, registry,
                          synced, fanout, net, contacts_added, cards_updated,
                          device_syncs_processed, cardWrites, warnings>>
      ELSE exchange_skip("unknown_response")

exchange_response(e, public_id) ==
    IF ContactKnown(contacts, public_id)
      THEN IF contacts[public_id].name # e.name
             THEN IF set_display_name_ok(e.name)
               THEN /\ contacts' =
                         [contacts EXCEPT ![public_id].name = e.name]
                    /\ contacts_updated' = contacts_updated + 1
                    /\ UNCHANGED <<identityFile, ownCard, history, pendingStore,
                                   registry, synced, fanout, net,
                                   contacts_added, cards_updated,
                                   device_syncs_processed, cardWrites,
                                   warnings>>
               ELSE exchange_skip("contact_name")
             ELSE exchange_skip("-")
      ELSE exchange_skip("unknown_response")

exchange_add(e, public_id) ==
    \E ratchetOk \in BOOLEAN, r \in ResponseOutcomes :
       /\ contacts' =
            [add_contact(contacts, public_id, e.name, "new")
               EXCEPT ![public_id].ratchet = ratchetOk]
       /\ fanout' = record_contact_for_device_sync(registry, fanout, public_id)
       /\ contacts_added' = contacts_added + 1
       /\ send_exchange_response(r, public_id)
       /\ respLog' =
            Append(respLog,
                   [to |-> public_id, pass |-> pass,
                    res |-> IF r = "ok" THEN "ok" ELSE "failed"])
       /\ warnings' =
            warnings \o (IF ratchetOk THEN <<>> ELSE <<"ratchet">>)
                     \o (IF r = "ok" THEN <<>> ELSE <<"response">>)
       /\ UNCHANGED <<identityFile, ownCard, removalSeen, pendingStore,
                      registry, synced,
                      contacts_updated, cards_updated, device_syncs_processed,
                      cardWrites>>

\* An applier that answers a request of a sender it already has.
exchange_duplicate_responding(e, public_id) ==
    \E r \in ResponseOutcomes :
       /\ send_exchange_response(r, public_id)
       /\ respLog' =
            Append(respLog,
                   [to |-> public_id, pass |-> pass,
                    res |-> IF r = "ok" THEN "ok" ELSE "failed"])
       /\ UNCHANGED <<identityFile, ownCard, removalSeen, contacts,
                      pendingStore, registry, synced, fanout, applyCounters,
                      warnings>>

\* `{} is already a contact`: the request is passed over with `continue`,
\* before the key agreement, the add and the response.
exchange_duplicate(e, public_id) == exchange_skip("-")

\* An applier that takes the ephemeral key as it comes.
ephemeral_key_unchecked(e) == TRUE

\* hex::decode(&exchange.ephemeral_public_key) gives 32 bytes.
ephemeral_key_ok(e) == e.eph = "ok"

process_exchange_messages ==
    /\ pc = "applyExchange"
    /\ IF exchange_messages = <<>>
         THEN /\ pc' = phase_after("applyExchange")
              /\ UNCHANGED <<persist, net, applyCounters, warnings,
                             exchange_messages>>
         ELSE LET e == Head(exchange_messages)
                  identity_key == HexDecode32(e.idkey)
                  public_id == HexEncode(identity_key)
              IN  /\ exchange_messages' = Tail(exchange_messages)
                  /\ pc' = "applyExchange"
                  /\ CASE identity_key = "none" ->
                            exchange_skip("invalid_identity_key")
                       [] identity_key # "none" /\ e.resp ->
                            exchange_response(e, public_id)
                       [] identity_key # "none" /\ ~e.resp
                            /\ ~ephemeral_key_ok(e) ->
                            exchange_skip("invalid_ephemeral_key")
                       [] identity_key # "none" /\ ~e.resp
                            /\ ephemeral_key_ok(e)
                            /\ already_contact(contacts, public_id) ->
                            exchange_duplicate(e, public_id)
                       [] identity_key # "none" /\ ~e.resp
                            /\ ephemeral_key_ok(e)
                            /\ ~already_contact(contacts, public_id)
                            /\ e.x3dh # "ok" ->
                            exchange_skip("x3dh")
                       [] OTHER -> exchange_add(e, public_id)
    /\ UNCHANGED <<passVars, wbOpen, summary, nRead, lastRead, received,
                   card_updates, device_sync_messages, sendVars>>

(* ------------------------------------------------------------------ *)
(* process_card_updates: one iteration of its loop                     *)
(* ------------------------------------------------------------------ *)
\* `wb.get_contact(&sender_id)?` is Some: the sender is a known contact.
card_sender_known(cs, sender_id) == ContactKnown(cs, sender_id)

\* A process_card_update that advances the ratchet before it knows that the
\* update decrypts.
process_card_update_eager(cs, sender_id, outcome) ==
    CASE outcome = "changed" ->
           [cs EXCEPT ![sender_id].card = "upd", ![sender_id].rx = @ + 1]
      [] OTHER -> [cs EXCEPT ![sender_id].rx = @ + 1]

\* wb.process_card_update: the ratchet advances on a successful decrypt and
\* the card changes when the delta is not empty.
process_card_update(cs, sender_id, outcome) ==
    CASE outcome = "changed" ->
           [cs EXCEPT ![sender_id].card = "upd", ![sender_id].rx = @ + 1]
      [] outcome = "same" -> [cs EXCEPT ![sender_id].rx = @ + 1]
      [] OTHER -> cs

process_card_updates ==
    /\ pc = "applyCards"
    /\ IF card_updates = <<>>
         THEN /\ pc' = phase_after("applyCards")
              /\ UNCHANGED <<contacts, cards_updated, warnings, card_updates,
                             wbOpen, sockOpen, summary>>
         ELSE LET u == Head(card_updates)
              IN  /\ card_updates' = Tail(card_updates)
                  /\ IF ~card_sender_known(contacts, u.sender)
                       THEN IF SliceOk(u.sender, 8)
                              THEN /\ warnings' =
                                        Append(warnings, "unknown_contact")
                                   /\ pc' = "applyCards"
                                   /\ UNCHANGED <<contacts, cards_updated,
                                                  wbOpen, sockOpen, summary>>
                              ELSE /\ Panic
                                   /\ UNCHANGED <<contacts, cards_updated,
                                                  warnings>>
                       ELSE /\ contacts' =
                                 process_card_update(contacts, u.sender,
                                                     u.outcome)
                            /\ cards_updated' =
                                 IF u.outcome = "err" THEN cards_updated
                                 ELSE cards_updated + 1
                            /\ warnings' =
                                 IF u.outcome = "err"
                                   THEN Append(warnings, "card_update")
                                   ELSE warnings
                            /\ pc' = "applyCards"
                            /\ UNCHANGED <<wbOpen, sockOpen, summary>>
    /\ UNCHANGED <<identityFile, ownCard, history, pendingStore, registry, synced, fanout, passVars,
                   conns, netLog, nRead, lastRead, received,
                   exchange_messages, device_sync_messages, contacts_added,
                   contacts_updated, device_syncs_processed, cardWrites,
                   sendVars>>

(* ------------------------------------------------------------------ *)
(* process_device_sync_messages and apply_sync_item                    *)
(* ------------------------------------------------------------------ *)
\* An apply_sync_item whose ContactAdded arm adds without looking first.
apply_sync_item_unchecked(cs, item) ==
    CASE item.type = "ContactAdded" ->
           [cs |-> add_contact(cs, item.cid, "n2", "synced"), panic |-> FALSE]
      [] item.type = "ContactRemoved" ->
           IF ContactKnown(cs, item.cid)
             THEN [cs |-> [cs EXCEPT ![item.cid] = NoContact],
                   panic |-> ~SliceOk(item.cid, 8)]
             ELSE [cs |-> cs, panic |-> FALSE]
      [] item.type = "VisibilityChanged" ->
           [cs |-> cs, panic |-> ~SliceOk(item.cid, 8)]
      [] OTHER -> [cs |-> cs, panic |-> FALSE]

\* apply_sync_item on the contact store: the new store, and whether a slice
\* of the arm panicked.
apply_sync_item(cs, item) ==
    CASE item.type = "ContactAdded" ->
           [cs |-> IF ~ContactKnown(cs, item.cid)
                     THEN add_contact(cs, item.cid, "n2", "synced")
                     ELSE cs,
            panic |-> FALSE]
      [] item.type = "ContactRemoved" ->
           IF ContactKnown(cs, item.cid)
             THEN [cs |-> [cs EXCEPT ![item.cid] = NoContact],
                   panic |-> ~SliceOk(item.cid, 8)]
             ELSE [cs |-> cs, panic |-> FALSE]
      [] item.type = "VisibilityChanged" ->
           [cs |-> cs, panic |-> ~SliceOk(item.cid, 8)]
      [] OTHER -> [cs |-> cs, panic |-> FALSE]

\* The CardUpdated arm on the own card: when a card is stored and
\* update_field_value is Ok, the field takes the new value.
own_card_after(card, item) ==
    IF item.type = "CardUpdated" /\ card # "none" THEN item.val ELSE card

\* The CardUpdated arm calls save_own_card: whenever update_field_value is Ok,
\* whatever value the field had.
own_card_saved(card, item) == item.type = "CardUpdated" /\ card # "none"

\* `for item in &applied { apply_sync_item(wb, item) }`, up to a panic, on
\* st = [cs, card, writes, panic].
RECURSIVE ApplyItems(_, _)
ApplyItems(st, items) ==
    IF items = <<>>
      THEN st
      ELSE LET item == Head(items)
               r == apply_sync_item(st.cs, item)
               next == [cs |-> r.cs,
                        card |-> own_card_after(st.card, item),
                        writes |-> st.writes +
                                   (IF own_card_saved(st.card, item)
                                      THEN 1 ELSE 0),
                        panic |-> r.panic]
           IN  IF r.panic THEN next ELSE ApplyItems(next, Tail(items))

\* The sender device the registry resolves the message to, or "none".
\* The code looks the device up with find_device and asks nothing else of it.
sender_device(r, m) ==
    LET k == HexDecode32(m.dev)
    IN  IF k # "none" /\ find_device(r, k) THEN HexEncode(k) ELSE "none"

\* orchestrator.mark_synced(&sender_device_id, msg.version) is reached:
\* after process_incoming, whether it returned Ok or Err.
marks_synced(m) == m.dec \in {"ok", "process_err"}

\* An applier that goes on without a registry.
registry_assumed(r) == TRUE

\* wb.storage().load_device_registry() is Some.
registry_loaded(r) == r # "none"

\* An applier that takes every payload for a readable one.
devsync_readable_unchecked(m) == TRUE

\* decrypt_from_device and serde_json::from_slice are both Ok.
devsync_readable(m) == m.dec \notin {"decrypt_err", "parse_err"}

\* The contact ids the ContactRemoved items of a payload name.
RemovedBy(items) ==
    {items[i].cid :
       i \in {j \in DOMAIN items : items[j].type = "ContactRemoved"}}

devsync_skip(warn) ==
    /\ warnings' = Append(warnings, warn)
    /\ pc' = "applyDevSync"
    /\ UNCHANGED <<contacts, ownCard, removalSeen, cardWrites, synced,
                   device_syncs_processed, wbOpen, sockOpen, summary>>

process_device_sync_messages ==
    /\ pc = "applyDevSync"
    /\ IF device_sync_messages = <<>>
         THEN /\ pc' = "sendUpdates"
              /\ UNCHANGED <<contacts, ownCard, removalSeen, cardWrites, synced,
                             device_syncs_processed, warnings,
                             device_sync_messages, wbOpen, sockOpen, summary>>
         ELSE IF ~registry_loaded(registry)
           THEN /\ pc' = "sendUpdates"
                /\ warnings' = Append(warnings, "no_registry")
                /\ device_sync_messages' = <<>>
                /\ UNCHANGED <<contacts, ownCard, removalSeen, cardWrites, synced,
                               device_syncs_processed, wbOpen, sockOpen,
                               summary>>
           ELSE LET m == Head(device_sync_messages)
                    sender == sender_device(registry, m)
                    r == ApplyItems([cs |-> contacts, card |-> ownCard,
                                     writes |-> 0, panic |-> FALSE], m.items)
                IN  /\ device_sync_messages' = Tail(device_sync_messages)
                    /\ CASE sender = "none" ->
                              devsync_skip(IF HexDecode32(m.dev) = "none"
                                             THEN "invalid_device"
                                             ELSE "unknown_device")
                         [] sender # "none" /\ ~devsync_readable(m) ->
                              devsync_skip(m.dec)
                         [] sender # "none" /\ devsync_readable(m)
                              /\ m.dec = "process_err" ->
                              /\ warnings' = Append(warnings, "process_err")
                              /\ synced' =
                                   IF marks_synced(m)
                                     THEN [synced EXCEPT ![sender] = m.ver]
                                     ELSE synced
                              /\ pc' = "applyDevSync"
                              /\ UNCHANGED <<contacts, ownCard, removalSeen, cardWrites,
                                             device_syncs_processed, wbOpen,
                                             sockOpen, summary>>
                         [] OTHER ->
                              /\ contacts' = r.cs
                              /\ ownCard' = r.card
                              /\ removalSeen' =
                                   removalSeen \cup RemovedBy(m.items)
                              /\ cardWrites' = cardWrites + r.writes
                              /\ IF r.panic
                                   THEN /\ Panic
                                        /\ UNCHANGED <<synced, warnings,
                                                       device_syncs_processed>>
                                   ELSE /\ device_syncs_processed' =
                                             device_syncs_processed + 1
                                        /\ synced' =
                                             IF marks_synced(m)
                                               THEN [synced EXCEPT
                                                       ![sender] = m.ver]
                                               ELSE synced
                                        /\ pc' = "applyDevSync"
                                        /\ UNCHANGED <<warnings, wbOpen,
                                                       sockOpen, summary>>
    /\ UNCHANGED <<identityFile, respLog, pendingStore, registry, fanout,
                   passVars, conns,
                   netLog, nRead, lastRead, received, exchange_messages,
                   card_updates, contacts_added, contacts_updated,
                   cards_updated, sendVars>>

(* ------------------------------------------------------------------ *)
(* send_pending_updates                                                *)
(* ------------------------------------------------------------------ *)
\* The entries the loops visit: for each contact of list_contacts, its
\* pending updates, here in the order of their identifiers.
RECURSIVE SortById(_)
SortById(S) ==
    IF S = {}
      THEN <<>>
      ELSE LET x == CHOOSE y \in S : \A z \in S : y.id <= z.id
           IN  <<x>> \o SortById(S \ {x})

\* A collection that takes only the oldest pending update.
PendingOfContacts_first(cs, store) ==
    LET q == SortById({u \in store : ContactKnown(cs, u.contact)})
    IN  IF q = <<>> THEN q ELSE <<Head(q)>>

PendingOfContacts(cs, store) ==
    SortById({u \in store : ContactKnown(cs, u.contact)})

\* A send loop that deletes the entry whatever the send returned.
store_after_send_always(store, u, res) == store \ {u}

\* The store after one visited entry: the entry is deleted when its send
\* succeeded, and only then.
store_after_send(store, u, res) ==
    IF res = "ok" THEN store \ {u} ELSE store

\* A loop that counts every entry it visits.
sent_after_always(sent, res) == sent + 1

\* `sent += 1`, in the branch where socket.send returned Ok.
sent_after(sent, res) == IF res = "ok" THEN sent + 1 ELSE sent

\* A loop that gives up at the first send that fails.
queue_after_send_abort(q, res) == IF res = "ok" THEN Tail(q) ELSE <<>>

\* What the loop still has to visit after one send: the rest, whatever the
\* send returned.
queue_after_send(q, res) == Tail(q)

\* A loop that takes the entries of every kind for card deltas.
is_card_delta_any(u) == TRUE

\* `update.update_type != "card_delta"` is false.
is_card_delta(u) == u.type = "card_delta"

\* The entries before the next card_delta entry are passed over
\* (`if update.update_type != "card_delta" { continue; }`).
RECURSIVE SkipOther(_)
SkipOther(q) ==
    IF q # <<>> /\ ~is_card_delta(Head(q)) THEN SkipOther(Tail(q)) ELSE q

collect_pending_updates ==
    /\ pc = "sendUpdates"
    /\ outQueue' = PendingOfContacts(contacts, pendingStore)
    /\ collectedStore' = pendingStore
    /\ pc' = "sendingUpdates"
    /\ UNCHANGED <<persist, passVars, wbOpen, net, drainVars, applyCounters,
                   updates_sent, device_syncs_sent, sendLog, devQueue, devLog,
                   warnings, summary>>

\* One socket.send of the loop, for the next card_delta entry; the loop ends
\* when none is left.  encode_message of the envelope is taken to succeed.
send_pending_updates ==
    /\ pc = "sendingUpdates"
    /\ LET q == SkipOther(outQueue)
       IN  IF q = <<>>
             THEN /\ pc' = "sendDevSync"
                  /\ outQueue' = <<>>
                  /\ UNCHANGED <<pendingStore, netLog, updates_sent, sendLog>>
             ELSE LET u == Head(q)
                  IN  /\ pc' = "sendingUpdates"
                      /\ \E res \in {"ok", "sendfail"} :
                           /\ outQueue' = queue_after_send(q, res)
                           /\ pendingStore' =
                                store_after_send(pendingStore, u, res)
                           /\ netLog' =
                                IF res = "ok"
                                  THEN Append(netLog,
                                              Ev("send", 1, "update", u.id))
                                  ELSE netLog
                           /\ updates_sent' = sent_after(updates_sent, res)
                           /\ sendLog' =
                                Append(sendLog, [id |-> u.id, res |-> res])
    /\ UNCHANGED <<identityFile, ownCard, history, contacts, registry, synced, fanout, passVars,
                   wbOpen, conns, sockOpen, drainVars, applyCounters,
                   device_syncs_sent, collectedStore, devQueue, devLog,
                   warnings, summary>>

(* ------------------------------------------------------------------ *)
(* send_device_sync                                                    *)
(* ------------------------------------------------------------------ *)
DeviceOrder == <<"self", "d1", "d2", "d3">>

\* A loop that builds an envelope for every device of the registry.
sync_target_any(d, fo) == fo # {}

\* The devices an envelope is built for: not this device, not revoked, and
\* with items pending for them.
sync_target(d, fo) == d # "self" /\ d \notin Revoked /\ fo # {}

\* The devices before the next target are passed over (`continue`).
RECURSIVE SkipNonTargets(_, _)
SkipNonTargets(q, fo) ==
    IF q # <<>> /\ ~sync_target(Head(q), fo)
      THEN SkipNonTargets(Tail(q), fo)
      ELSE q

collect_device_sync ==
    /\ pc = "sendDevSync"
    /\ IF Cardinality(RegistryDevices(registry)) <= 1
         THEN /\ pc' = "close"
              /\ UNCHANGED devQueue
         ELSE /\ pc' = "sendingDevSync"
              /\ devQueue' = DeviceOrder
    /\ UNCHANGED devLog
    /\ UNCHANGED <<persist, passVars, wbOpen, net, drainVars, applyCounters,
                   updates_sent, device_syncs_sent, collectedStore, outQueue,
                   sendLog, warnings, summary>>

\* One socket.send of the loop, to the next target device; the loop ends
\* when none is left.
send_device_sync ==
    /\ pc = "sendingDevSync"
    /\ LET q == SkipNonTargets(devQueue, fanout)
       IN  IF q = <<>>
             THEN /\ pc' = "close"
                  /\ devQueue' = <<>>
                  /\ UNCHANGED <<netLog, device_syncs_sent, devLog>>
             ELSE /\ pc' = "sendingDevSync"
                  /\ \E res \in {"ok", "sendfail"} :
                       /\ devQueue' = queue_after_send(q, res)
                       /\ devLog' =
                            Append(devLog, [id |-> Head(q), res |-> res])
                       /\ IF res = "ok"
                            THEN /\ netLog' =
                                      Append(netLog,
                                             Ev("send", 1, "devsync", Head(q)))
                                 /\ device_syncs_sent' = device_syncs_sent + 1
                            ELSE UNCHANGED <<netLog, device_syncs_sent>>
    /\ UNCHANGED <<persist, passVars, wbOpen, conns, sockOpen, drainVars,
                   applyCounters, updates_sent, collectedStore, outQueue,
                   sendLog, warnings, summary>>

(* ------------------------------------------------------------------ *)
(* close, report, and the next pass                                    *)
(* ------------------------------------------------------------------ *)
total_changes ==
    received + contacts_added + contacts_updated + cards_updated
        + updates_sent + device_syncs_processed + device_syncs_sent

\* A report that takes a pass without changes for a pass with changes.
report_counted(total) == IF total >= 0 THEN "counted" ELSE "nothing"

\* The summary line: counted when there was any change, and otherwise
\* "Sync complete: No new messages or pending updates".
report(total) == IF total > 0 THEN "counted" ELSE "nothing"

\* socket.close(None), the summary line, and the return of run.
close_and_report ==
    /\ pc = "close"
    /\ netLog' = Append(netLog, Ev("close", 1, "-", "-"))
    /\ sockOpen' = {}
    /\ summary' = report(total_changes)
    /\ wbOpen' = FALSE
    /\ pc' = "done"
    /\ UNCHANGED <<persist, passVars, conns, drainVars, applyCounters, sendVars,
                   warnings>>

Finished == pc \in {"done", "failed", "panicked"}

\* The command is run again on the same store.
NextPass ==
    /\ Finished
    /\ pass < MaxPasses
    /\ pass' = pass + 1
    /\ connectWait' = 0
    /\ pc' = "start"
    /\ wbOpen' = FALSE
    /\ conns' = 0
    /\ sockOpen' = {}
    /\ netLog' = <<>>
    /\ nRead' = 0
    /\ lastRead' = NoFrame
    /\ received' = 0
    /\ exchange_messages' = <<>>
    /\ card_updates' = <<>>
    /\ device_sync_messages' = <<>>
    /\ contacts_added' = 0
    /\ contacts_updated' = 0
    /\ cards_updated' = 0
    /\ device_syncs_processed' = 0
    /\ updates_sent' = 0
    /\ device_syncs_sent' = 0
    /\ warnings' = <<>>
    /\ collectedStore' = {}
    /\ outQueue' = <<>>
    /\ sendLog' = <<>>
    /\ devQueue' = <<>>
    /\ devLog' = <<>>
    /\ cardWrites' = 0
    /\ summary' = "-"
    /\ UNCHANGED <<persist, importLog>>

\* Every step of a pass but the reads of the drain loop.
PassStep ==
    \/ open_vauchi
    \/ Connect
    \/ send_handshake
    \/ ConnectWait
    \/ Settle
    \/ receive_timeout
    \/ receive_blocked
    \/ process_exchange_messages
    \/ process_card_updates
    \/ process_device_sync_messages
    \/ collect_pending_updates
    \/ send_pending_updates
    \/ collect_device_sync
    \/ send_device_sync
    \/ close_and_report

\* One pass, against every kind of inbound frame.
Next == PassStep \/ receive_pending

Spec == Init /\ [][Next]_vars

\* Passes run one after the other on the same store.
NextPasses ==
    PassStep \/ receive_redelivered \/ NextPass \/ import_local_identity

SpecPasses == Init /\ [][NextPasses]_vars

(* ------------------------------------------------------------------ *)
(* Properties                                                          *)
(* ------------------------------------------------------------------ *)
SuspensionPoints ==
    {"connect", "handshake", "settle", "drain", "sendingUpdates",
     "sendingDevSync"}

ApplierPhases == {"applyExchange", "applyCards", "applyDevSync"}

\* C1: whenever the pass is at a suspension point (connect, handshake,
\* settle delay, inbound read, outbound send) no local-state handle is open.
C1_NoHandleAtSuspension == pc \in SuspensionPoints => ~wbOpen

\* C2: one pass opens exactly one relay connection and everything it sends
\* travels over that connection.
C2_SingleConnection ==
    /\ conns <= 1
    /\ \A i \in DOMAIN netLog : netLog[i].conn = 1

\* C3: the appliers run only after the drain loop has returned, and no
\* connect or send happens while an applier runs.
C3_NoNetworkInAppliers ==
    /\ pc \in {"start", "connect", "handshake", "settle", "drain"} =>
         /\ contacts_added = 0
         /\ contacts_updated = 0
         /\ cards_updated = 0
         /\ device_syncs_processed = 0
    /\ \A i \in DOMAIN netLog : netLog[i].phase \notin ApplierPhases

SentOk == {sendLog[i].id : i \in {j \in DOMAIN sendLog : sendLog[j].res = "ok"}}

SendFailed ==
    {sendLog[i].id : i \in {j \in DOMAIN sendLog : sendLog[j].res # "ok"}}

AfterCollect ==
    pc \in {"sendingUpdates", "sendDevSync", "sendingDevSync", "close", "done"}

\* C4: once the send loop has begun, the pending-update store is the store
\* it began with minus exactly the entries whose own send succeeded; an entry
\* whose send failed is still there, unchanged, and when exactly one of the N
\* sends failed exactly N-1 entries are gone.
C4_FailedSendKeepsEntry ==
    AfterCollect =>
      /\ pendingStore = {u \in collectedStore : u.id \notin SentOk}
      /\ \A u \in collectedStore : u.id \in SendFailed => u \in pendingStore
      /\ (pc # "sendingUpdates" /\ Cardinality(SendFailed) = 1) =>
           Cardinality(collectedStore \ pendingStore) = Len(sendLog) - 1

C4_Witness ==
    /\ pc = "done"
    /\ Len(sendLog) = MaxPending
    /\ Cardinality(SendFailed) = 1
    /\ Cardinality(collectedStore \ pendingStore) = MaxPending - 1

\* The step is one read of the drain loop that delivered a frame.
ReadStep == pc = "drain" /\ nRead' = nRead + 1

\* A malformed frame in the sense of the specification: the envelope does not
\* decode, or it carries an exchange message whose keys have a wrong length.
MalformedFrame(f) ==
    \/ ~DecodeOk(f)
    \/ /\ f.kind = "update"
       /\ f.ct = "exch"
       /\ (HexDecode32(f.idkey) = "none" \/ f.eph # "ok")

C6_NoPanic == pc # "panicked"

\* The exchange message is a request with well-formed keys.
ValidRequest(e) == HexDecode32(e.idkey) # "none" /\ ~e.resp /\ e.eph = "ok"

NoDuplicateContact == \A k \in Keys : contacts[k].n <= 1

\* C7: applying an exchange request leaves exactly one contact for its
\* sender, and applying it when the sender is already a contact changes
\* nothing: no local state, no counter, no frame sent, no warning.
C7_ExchangeRequestIdempotent ==
    [][(/\ pc = "applyExchange"
        /\ exchange_messages # <<>>
        /\ ValidRequest(Head(exchange_messages))
        /\ NoDuplicateContact) =>
         LET e == Head(exchange_messages)
             id == HexEncode(HexDecode32(e.idkey))
         IN  /\ contacts'[id].n <= 1
             /\ e.x3dh = "ok" => contacts'[id].n = 1
             /\ ContactKnown(contacts, id) =>
                  UNCHANGED <<persist, net, applyCounters, warnings>>]_vars

\* A second pass has drained one frame, a request of "a", and skipped it:
\* "a" was added from a request by an earlier pass.
C7_Witness ==
    /\ pass = 2
    /\ pc = "applyCards"
    /\ nRead = 1
    /\ received = 1
    /\ device_sync_messages = <<>>
    /\ contacts_added = 0
    /\ "a" \in fanout
    /\ contacts["a"].n = 1

\* The device-sync message at the head of the list is applied: its device is
\* registered and it decrypts and parses.
DevSyncApplied(m) ==
    /\ registry # "none"
    /\ sender_device(registry, m) # "none"
    /\ m.dec = "ok"

\* C8: applying ContactAdded items never leaves two contacts with one
\* identifier: the contact is there once, and an item whose contact is
\* already there changes nothing of it.
C8_ContactAddedIdempotent ==
    [][(/\ pc = "applyDevSync"
        /\ device_sync_messages # <<>>
        /\ DevSyncApplied(Head(device_sync_messages))
        /\ NoDuplicateContact) =>
         LET m == Head(device_sync_messages)
         IN  \A i \in DOMAIN m.items :
                m.items[i].type = "ContactAdded" =>
                  /\ contacts'[m.items[i].cid].n = 1
                  /\ ContactKnown(contacts, m.items[i].cid) =>
                       contacts'[m.items[i].cid] = contacts[m.items[i].cid]]_vars

\* Two device-sync payloads of one pass were applied, neither removed "a",
\* so both carried ContactAdded for "b", and "b" is there once.
C8_Witness ==
    /\ pc = "sendUpdates"
    /\ nRead = 2
    /\ device_syncs_processed = 2
    /\ ContactKnown(contacts, "a")
    /\ contacts["b"].n = 1

\* The step reads a card update whose sender is not a known contact.
ReadsUnknownSender ==
    /\ ReadStep
    /\ lastRead'.kind = "update"
    /\ lastRead'.ct = "card"
    /\ ~ContactKnown(contacts, lastRead'.sender)

\* The step is the card-update applier on an update whose sender is not a
\* known contact.
AppliesUnknownSender ==
    /\ pc = "applyCards"
    /\ card_updates # <<>>
    /\ ~ContactKnown(contacts, Head(card_updates).sender)

\* The applier skips the update: no local state changes, a warning is
\* printed, the update is not counted, the loop goes on with the rest.
SkippedWithWarning ==
    /\ UNCHANGED persist
    /\ cards_updated' = cards_updated
    /\ warnings' = Append(warnings, "unknown_contact")
    /\ card_updates' = Tail(card_updates)
    /\ pc' = "applyCards"

\* C9: a card update whose sender is not a known contact changes no local
\* state, is reported as a warning, is not counted in cards updated, and the
\* remaining card updates of the pass are still processed: the drain loop
\* hands it to the applier and the applier skips it with a warning.
C9_UnknownSenderNoEffect ==
    [][/\ ReadsUnknownSender =>
            /\ pc' = "drain"
            /\ card_updates' = Append(card_updates, lastRead')
            /\ UNCHANGED persist
       /\ AppliesUnknownSender => SkippedWithWarning]_vars

\* What holds of the applier alone, for the updates that reach it.
UnknownSenderSkippedByApplier ==
    [][AppliesUnknownSender => SkippedWithWarning]_vars

\* The device the message names is not in the registry, or is revoked.
FromRevokedOrUnknown(m) ==
    LET d == HexEncode(HexDecode32(m.dev))
    IN  d \notin RegistryDevices(registry) \/ d \in Revoked

\* C10: a device-sync payload from a revoked or unknown device is skipped
\* with a warning: it is not applied, its device is not marked synced and it
\* is not counted in device syncs received.
C10_RevokedDeviceSkipped ==
    [][(/\ pc = "applyDevSync"
        /\ device_sync_messages # <<>>
        /\ registry # "none"
        /\ FromRevokedOrUnknown(Head(device_sync_messages))) =>
         /\ Len(warnings') = Len(warnings) + 1
         /\ UNCHANGED <<contacts, synced, device_syncs_processed>>]_vars

\* C11: a relay connection that does not complete within 5 time units makes
\* the pass abort: the pass is never still connecting after more than 5 time
\* units, and a pass that failed to connect has sent no frame.
C11_ConnectTimesOut ==
    /\ pc = "connect" => connectWait <= 5
    /\ (pc = "failed" /\ conns = 0) => netLog = <<>>

\* The handshake of the pass went out on its connection.
HandshakeDone ==
    \E i \in DOMAIN netLog :
       netLog[i].kind = "handshake" /\ netLog[i].conn = 1

\* C12: once the connection and the handshake have succeeded, no failure on
\* one inbound or outbound item aborts the pass or makes it exit non-zero.
C12_ItemFailureNeverAborts ==
    HandshakeDone => pc \notin {"failed", "panicked"}

\* C13: a pass to which the relay delivers no frame and whose store holds no
\* pending update runs to its end, changes no local state and reports
\* "no new messages or pending updates".
C13_ZeroWorkPass ==
    [][(nRead' = 0 /\ pendingStore = {}) =>
         /\ UNCHANGED persist
         /\ pc' \notin {"blocked", "panicked"}
         /\ pc' = "done" => summary' = "nothing"]_vars

AllSendsOk == \A i \in DOMAIN sendLog : sendLog[i].res = "ok"

\* The card_delta entries the collection finds: those of the listed contacts.
CollectedDeltas ==
    {u \in collectedStore :
       u.type = "card_delta" /\ ContactKnown(contacts, u.contact)}

AfterSendLoop == pc \in {"sendDevSync", "sendingDevSync", "close", "done"}

C15_ClosedOnEveryPath == Finished => sockOpen = {}

\* The pass opened its connection and errored out of the handshake.
C15_Witness ==
    /\ pc = "failed"
    /\ conns = 1
    /\ summary = "handshake_error"
    /\ sockOpen = {}

\* C16: without a local identity the pass fails with "not initialized"
\* before it connects to the relay or sends anything.
C16_NotInitialized ==
    ~initialized =>
      /\ pc \in {"start", "failed"}
      /\ pc = "failed" => summary = "not_initialized"
      /\ ~wbOpen
      /\ conns = 0
      /\ netLog = <<>>

C16_Witness ==
    /\ ~initialized
    /\ pc = "failed"
    /\ summary = "not_initialized"
    /\ netLog = <<>>

\* C17: import_local_identity on a file under the legacy password succeeds
\* and rewrites it; from then on the file opens under the per-installation
\* password and not under the legacy one, and every later import succeeds
\* without writing the file again.
C17_LegacyMigration ==
    \A i \in DOMAIN importLog :
       importLog[i].before = "legacy" =>
         /\ importLog[i].res = "ok"
         /\ importLog[i].wrote
         /\ import_backup(idFile, backup_password)
         /\ ~import_backup(idFile, LEGACY_BACKUP_PASSWORD)
         /\ \A j \in DOMAIN importLog :
               j > i => /\ importLog[j].before = "install"
                        /\ importLog[j].res = "ok"
                        /\ ~importLog[j].wrote

\* A legacy file was migrated by one import and opened by the next.
C17_Witness ==
    /\ Len(importLog) >= 2
    /\ importLog[1].before = "legacy"
    /\ importLog[2].res = "ok"
    /\ idFile = "install"

\* C18: a step of the drain loop changes no persistent local state and no
\* applier or sender counter; what it sends is an acknowledgment or a pong.
C18_DrainMutatesNothing ==
    [][pc = "drain" =>
         /\ UNCHANGED <<persist, applyCounters, sendVars, conns>>
         /\ \A i \in (Len(netLog) + 1)..Len(netLog') :
               netLog'[i].kind \in {"ack", "devack", "pong"}]_vars

\* The drain loop returned after a card update of the known contact "a" and
\* a device-sync message, and "a" still has the card it had.
C18_Witness ==
    /\ pc = "applyExchange"
    /\ nRead = 2
    /\ received = 2
    /\ Len(card_updates) = 1
    /\ card_updates[1].sender = "a"
    /\ Len(device_sync_messages) = 1
    /\ contacts["a"].n = 1
    /\ contacts["a"].card = "new"

\* C19: a read of the drain loop that meets the idle timeout, a close or a
\* read error ends the loop with everything collected so far, and the loop
\* never stays in a read for ever.
C19_DrainTerminates ==
    [][pc = "drain" =>
         /\ pc' # "blocked"
         /\ lastRead'.kind \in {"none", "close", "ioerr"} =>
              /\ pc' = "applyExchange"
              /\ received' = received
              /\ UNCHANGED collected]_vars

\* C20: the read of an encrypted update or of a device-sync message sends,
\* in the same iteration, one acknowledgment that names the message
\* identifier of that frame.
C20_AckInline ==
    [][(ReadStep /\ lastRead'.kind \in {"update", "devsync"}) =>
         netLog' =
           Append(netLog,
                  Ev("send", 1,
                     IF lastRead'.kind = "update" THEN "ack" ELSE "devack",
                     lastRead'.mid))]_vars

(* ------------------------------------------------------------------ *)
(* C21: one handshake opens every connection                           *)
(* ------------------------------------------------------------------ *)
\* The frames sent on connection c, in order.
SendsOn(c) == SelectSeq(netLog, LAMBDA e : e.op = "send" /\ e.conn = c)

\* Connection 1 is the one `run` opens; the others are opened by
\* send_exchange_response.
FullSyncConnection(c) == c = 1

BeforeDrain == {"start", "connect", "handshake", "settle"}

\* C21: on every connection the pass opens, the first frame sent is a
\* handshake and no later frame is one; the handshake of the connection of
\* the full pass carries the client id and the device id, the one of an
\* exchange-response connection carries the client id alone; nothing is
\* read before the handshake has been sent, and nothing is read between the
\* handshake and the drain.
C21_HandshakeFirst ==
    /\ \A c \in 1..conns :
         LET sends == SendsOn(c)
         IN  sends # <<>> =>
               /\ Head(sends).kind = "handshake"
               /\ Head(sends).ref = HandshakeFields(FullSyncConnection(c))
               /\ \A i \in 2..Len(sends) : sends[i].kind # "handshake"
    /\ nRead > 0 => SendsOn(1) # <<>>
    /\ pc \in BeforeDrain => nRead = 0
    /\ pc \notin {"start", "connect", "handshake", "failed"} =>
         Len(SendsOn(1)) >= 1

\* A finished pass that read a frame on the handshaken connection and sent
\* an exchange response on a connection of its own.
C21_Witness ==
    /\ pc = "done"
    /\ nRead >= 1
    /\ conns >= 2
    /\ \E i \in 1..Len(netLog) :
         netLog[i].kind = "response" /\ netLog[i].conn = 2

(* ------------------------------------------------------------------ *)
(* C22: the send loops visit every collected frame once, in order      *)
(* ------------------------------------------------------------------ *)
\* The ids of the card_delta entries the loop of send_pending_updates has to
\* send, in the order the loop meets them.
ExpectedUpdates ==
    LET q == SelectSeq(PendingOfContacts(contacts, collectedStore),
                       LAMBDA u : u.type = "card_delta")
    IN  [i \in 1..Len(q) |-> q[i].id]

\* The devices the loop of send_device_sync has to send to, in the order of
\* registry.all_devices().
ExpectedDevices ==
    IF Cardinality(RegistryDevices(registry)) <= 1
      THEN <<>>
      ELSE SelectSeq(DeviceOrder, LAMBDA d : sync_target(d, fanout))

IdsOf(log) == [i \in 1..Len(log) |-> log[i].id]

\* The frames of one kind put on the wire, in order.
WireRefs(kind) ==
    LET q == SelectSeq(netLog, LAMBDA e : e.op = "send" /\ e.kind = kind)
    IN  [i \in 1..Len(q) |-> q[i].ref]

OkIdsOf(log) == IdsOf(SelectSeq(log, LAMBDA x : x.res = "ok"))

\* C22: at every point of a send loop the frames attempted so far are the
\* first ones of the collected list, in its order and each once; when the
\* loop is over every frame of the list has been attempted, whatever the
\* sends before it returned; the frames on the wire are the ones whose send
\* succeeded, in the same order; and a pass that has attempted a send has
\* not failed.
C22_EachFrameOnceInOrder ==
    /\ AfterCollect =>
         /\ Len(sendLog) <= Len(ExpectedUpdates)
         /\ IdsOf(sendLog) = SubSeq(ExpectedUpdates, 1, Len(sendLog))
         /\ WireRefs("update") = OkIdsOf(sendLog)
    /\ AfterSendLoop => IdsOf(sendLog) = ExpectedUpdates
    /\ pc \in {"sendingDevSync", "close", "done"} =>
         /\ Len(devLog) <= Len(ExpectedDevices)
         /\ IdsOf(devLog) = SubSeq(ExpectedDevices, 1, Len(devLog))
         /\ WireRefs("devsync") = OkIdsOf(devLog)
    /\ pc \in {"close", "done"} => IdsOf(devLog) = ExpectedDevices
    /\ (sendLog # <<>> \/ devLog # <<>>) => pc \notin {"failed", "panicked"}
    /\ (pc = "done" /\ (sendLog # <<>> \/ devLog # <<>>)) =>
         summary \in {"counted", "nothing"}

\* A finished pass whose first card-delta send and first device-sync send
\* failed and whose later sends were made and succeeded.
C22_Witness ==
    /\ pc = "done"
    /\ Len(sendLog) = MaxPending
    /\ sendLog[1].res = "sendfail"
    /\ sendLog[Len(sendLog)].res = "ok"
    /\ devLog = <<[id |-> "d1", res |-> "sendfail"], [id |-> "d3", res |-> "ok"]>>

(* ------------------------------------------------------------------ *)
(* C23, C24: collection, dispatch and deletion                         *)
(* ------------------------------------------------------------------ *)
\* A collected card_delta entry still waits for its send.
DispatchUnfinished == pc = "sendingUpdates" /\ SkipOther(outQueue) # <<>>

\* C23: collecting the outbound frames deletes nothing, and pending entries
\* are deleted only after the dispatch loop, in a cleanup of their own: as
\* long as a collected frame still waits to be sent, the pending-update
\* store is the one the collection read.
C23_CollectorPureRead == DispatchUnfinished => pendingStore = collectedStore

OutboundKinds == {"response", "update", "devsync"}

SendPhases == {"sendUpdates", "sendingUpdates", "sendDevSync", "sendingDevSync"}

\* C24: the outbound phases begin when the three appliers have emptied their
\* lists, and every outbound frame that carries an update (an EncryptedUpdate
\* or a device-sync message) is sent from the outbound phases, after the last
\* inbound item was applied.
C24_OutboundAfterInbound ==
    /\ pc \in SendPhases =>
         /\ exchange_messages = <<>>
         /\ card_updates = <<>>
         /\ device_sync_messages = <<>>
    /\ \A i \in DOMAIN netLog :
         netLog[i].kind \in OutboundKinds => netLog[i].phase \in SendPhases

(* ------------------------------------------------------------------ *)
(* C25, C26: the exchange applier                                      *)
(* ------------------------------------------------------------------ *)
\* The step applies the exchange message at the head of the list.
ExchangeStep == pc = "applyExchange" /\ exchange_messages # <<>>

\* The contact id the applier derives from the identity key of e, "-" when
\* the key does not decode to 32 bytes.
DerivedId(e) == HexEncode(HexDecode32(e.idkey))

\* C25: applying a response-flagged exchange message creates no contact and
\* sends nothing; when the sender is a contact whose stored name equals the
\* name of the message nothing is written and nothing is counted; when the
\* name differs, the name is the only thing written and the message counts
\* as one update exactly when it was written; when the sender is unknown,
\* local state and counters are unchanged, one warning is reported and the
\* applier goes on with the rest of the list.
C25_ResponseNeverCreates ==
    [][(ExchangeStep /\ Head(exchange_messages).resp) =>
         LET e == Head(exchange_messages)
             id == DerivedId(e)
         IN  /\ contacts_added' = contacts_added
             /\ \A k \in Keys : contacts'[k].n = contacts[k].n
             /\ UNCHANGED <<identityFile, ownCard, history, pendingStore, registry,
                            synced, fanout, net>>
             /\ pc' = "applyExchange"
             /\ exchange_messages' = Tail(exchange_messages)
             /\ IF ContactKnown(contacts, id)
                  THEN /\ \/ contacts' = contacts
                          \/ contacts' = [contacts EXCEPT ![id].name = e.name]
                       /\ contacts[id].name = e.name =>
                            /\ contacts' = contacts
                            /\ contacts_updated' = contacts_updated
                            /\ warnings' = warnings
                       /\ contacts_updated' =
                            IF contacts' # contacts
                              THEN contacts_updated + 1
                              ELSE contacts_updated
                  ELSE /\ contacts' = contacts
                       /\ contacts_updated' = contacts_updated
                       /\ Len(warnings') = Len(warnings) + 1]_vars

\* Two exchange messages were applied, among them a response of the contact
\* "a" with a name that was not the stored one: one update is counted, no
\* contact was added and the stored name is the new one.
C25_Witness ==
    /\ pc = "applyCards"
    /\ nRead = 2
    /\ received = 2
    /\ card_updates = <<>>
    /\ device_sync_messages = <<>>
    /\ contacts_updated = 1
    /\ contacts_added = 0
    /\ warnings = <<>>
    /\ contacts["a"].n = 1
    /\ contacts["a"].name = "n2"

\* The message is a request one of whose two keys is not 32 bytes long.
MalformedRequest(e) ==
    ~e.resp /\ (HexDecode32(e.idkey) = "none" \/ e.eph # "ok")

\* C26: a request whose identity key or ephemeral key is not 32 bytes long
\* is skipped with one warning: contacts, ratchets, the device fan-out
\* record, every other part of local state and the counters are unchanged,
\* nothing is sent, and the applier goes on with the rest of the list.
C26_MalformedRequestSkipped ==
    [][(ExchangeStep /\ MalformedRequest(Head(exchange_messages))) =>
         /\ UNCHANGED <<persist, net, applyCounters>>
         /\ warnings' =
              Append(warnings,
                     IF HexDecode32(Head(exchange_messages).idkey) = "none"
                       THEN "invalid_identity_key"
                       ELSE "invalid_ephemeral_key")
         /\ exchange_messages' = Tail(exchange_messages)
         /\ pc' = "applyExchange"]_vars

\* A request with a bad ephemeral key and a well-formed request were both in
\* the list: the first was skipped with its warning, the second added its
\* contact.
C26_Witness ==
    /\ pc = "applyCards"
    /\ nRead = 2
    /\ contacts_added = 1
    /\ \E i \in DOMAIN warnings : warnings[i] = "invalid_ephemeral_key"
    /\ \A i \in DOMAIN warnings :
         warnings[i] \in {"invalid_ephemeral_key", "response", "ratchet"}

(* ------------------------------------------------------------------ *)
(* C27: the card-update applier                                        *)
(* ------------------------------------------------------------------ *)
\* The step applies a card update of a known contact that fails to decrypt
\* or to apply.
FailingCardStep ==
    /\ pc = "applyCards"
    /\ card_updates # <<>>
    /\ card_sender_known(contacts, Head(card_updates).sender)
    /\ Head(card_updates).outcome = "err"

\* C27: a card update that fails to decrypt or to apply is reported with one
\* warning and is not counted; it leaves the contacts, their ratchets and all
\* other local state as they were, and the applier goes on with the pairs
\* after it, which therefore are applied to the state they would have met
\* without the failing pair.
C27_CardFailureIsolated ==
    [][FailingCardStep =>
         /\ UNCHANGED <<persist, net, applyCounters>>
         /\ warnings' = Append(warnings, "card_update")
         /\ card_updates' = Tail(card_updates)
         /\ pc' = "applyCards"]_vars

\* Two card updates of "a" were in the list, one failed and one changed the
\* card: one warning, one card counted, the ratchet advanced once.
C27_Witness ==
    /\ pc = "applyDevSync"
    /\ nRead = 2
    /\ warnings = <<"card_update">>
    /\ cards_updated = 1
    /\ contacts["a"].card = "upd"
    /\ contacts["a"].rx = 1

(* ------------------------------------------------------------------ *)
(* C28, C29, C30: the device-sync applier                              *)
(* ------------------------------------------------------------------ *)
DevSyncStep == pc = "applyDevSync" /\ device_sync_messages # <<>>

\* C28: when device-sync payloads were drained and there is no registry, the
\* applier reports one warning, applies nothing, marks no device synced,
\* returns zero and the pass goes on to the outbound phases.
C28_NoRegistryWarning ==
    [][(DevSyncStep /\ registry = "none") =>
         /\ warnings' = Append(warnings, "no_registry")
         /\ UNCHANGED <<persist, net, applyCounters>>
         /\ device_syncs_processed' = 0
         /\ pc' = "sendUpdates"]_vars

\* A pass without registry drained two device-sync payloads and finished:
\* one warning, no device sync counted, no device marked synced.
C28_Witness ==
    /\ pc = "done"
    /\ registry = "none"
    /\ nRead = 2
    /\ received = 2
    /\ warnings = <<"no_registry">>
    /\ device_syncs_processed = 0
    /\ \A d \in Devices : synced[d] = 0
    /\ summary = "counted"

\* The payload at the head of the list comes from a registered device and
\* fails to decrypt or to parse.
UnreadablePayload(m) ==
    /\ registry # "none"
    /\ sender_device(registry, m) # "none"
    /\ m.dec \in {"decrypt_err", "parse_err"}

\* C29: a payload that fails to decrypt or to parse is given up with one
\* warning: none of its items is applied, it is not counted among the device
\* syncs received, its device is not marked synced, and the applier goes on
\* with the payloads after it.
C29_UnreadablePayloadIsolated ==
    [][(DevSyncStep /\ UnreadablePayload(Head(device_sync_messages))) =>
         /\ UNCHANGED <<persist, net, applyCounters, received>>
         /\ warnings' = Append(warnings, Head(device_sync_messages).dec)
         /\ device_sync_messages' = Tail(device_sync_messages)
         /\ pc' = "applyDevSync"]_vars

\* Two payloads of d1 were in the list: one did not decrypt, the other was
\* applied (it added "b"), counted, and d1 was marked synced.
C29_Witness ==
    /\ pc = "sendUpdates"
    /\ nRead = 2
    /\ warnings = <<"decrypt_err">>
    /\ device_syncs_processed = 1
    /\ synced["d1"] = 1
    /\ contacts["b"].n = 1

\* The writes of the own card a list of items needs: one for each
\* CardUpdated item whose value is not the stored one when its turn comes.
RECURSIVE NeededWrites(_, _)
NeededWrites(card, items) ==
    IF items = <<>>
      THEN 0
      ELSE LET item == Head(items)
               differs == item.type = "CardUpdated" /\ card # "none"
                            /\ card # item.val
           IN  (IF differs THEN 1 ELSE 0)
                 + NeededWrites(IF differs THEN item.val ELSE card,
                                Tail(items))

\* C30: applying a sync item a second time changes nothing and writes
\* nothing: the own card is saved once for each CardUpdated item whose value
\* differs from the stored one, and not at all for an item whose value is
\* already stored.
C30_SecondApplyWritesNothing ==
    [][(DevSyncStep /\ DevSyncApplied(Head(device_sync_messages))) =>
         cardWrites' =
           cardWrites + NeededWrites(ownCard,
                                     Head(device_sync_messages).items)]_vars

(* ------------------------------------------------------------------ *)
(* C31: the devices a device-sync envelope goes to                     *)
(* ------------------------------------------------------------------ *)
\* The devices a device-sync envelope was put on the wire for, or attempted.
DevSyncAddressees ==
    {netLog[i].ref : i \in {j \in DOMAIN netLog : netLog[j].kind = "devsync"}}
      \cup {devLog[i].id : i \in DOMAIN devLog}

\* C31: every device-sync envelope is addressed to a device of the registry
\* that is not this device and is not revoked, and without a registry, or
\* with a registry of at most one device, no envelope is sent at all.
C31_DevSyncTargets ==
    /\ \A d \in DevSyncAddressees :
         /\ d \in RegistryDevices(registry)
         /\ d # "self"
         /\ d \notin Revoked
    /\ Cardinality(RegistryDevices(registry)) <= 1 =>
         /\ DevSyncAddressees = {}
         /\ device_syncs_sent = 0

\* A finished pass with a registry of four devices sent an envelope to each
\* of the two active other devices and to no one else.
C31_Witness ==
    /\ pc = "done"
    /\ registry = "multi"
    /\ device_syncs_sent = 2
    /\ WireRefs("devsync") = <<"d1", "d3">>

(* ------------------------------------------------------------------ *)
(* C32: when a sender device is marked synced                          *)
(* ------------------------------------------------------------------ *)
\* C32: the applier marks a device synced only for a payload that was
\* decrypted, parsed and processed without error; a payload whose processing
\* fails leaves the synced version of every device as it was.
C32_SyncedOnlyAfterApply ==
    [][DevSyncStep =>
         LET m == Head(device_sync_messages)
         IN  /\ synced' # synced =>
                  /\ DevSyncApplied(m)
                  /\ device_syncs_processed' = device_syncs_processed + 1
             /\ m.dec # "ok" => synced' = synced]_vars

(* ------------------------------------------------------------------ *)
(* C33: the received count and the collected lists                     *)
(* ------------------------------------------------------------------ *)
CollectedCount ==
    Len(exchange_messages) + Len(card_updates) + Len(device_sync_messages)

\* C33: all through the drain loop, and so when it returns, the received
\* count is the number of frames in the three collected lists: a frame that
\* is counted is in exactly one of them.
C33_ReceivedIsCollected ==
    [][pc = "drain" => received' = CollectedCount']_vars

(* ------------------------------------------------------------------ *)
(* C34: one exchange response per requester                            *)
(* ------------------------------------------------------------------ *)
ResponsesTo(id) == {i \in DOMAIN respLog : respLog[i].to = id}

\* C34 as stated: over the passes at most one exchange response is attempted
\* for a requester.
C34_AtMostOneResponse ==
    \A id \in Keys : Cardinality(ResponsesTo(id)) <= 1

\* C34: over the passes, as long as no device-sync item has removed the
\* contact in between, at most one exchange response is attempted for a
\* requester, whether its send succeeded or failed; and the responses
\* attempted in a pass are as many as the contacts the pass has added, so a
\* request passed over as a duplicate attempts none.
C34_OneResponsePerRequester ==
    /\ \A id \in Keys \ removalSeen : Cardinality(ResponsesTo(id)) <= 1
    /\ Cardinality({i \in DOMAIN respLog : respLog[i].pass = pass})
         = contacts_added

\* The first pass added "a" from its request and the response failed; the
\* second pass drained the request again, passed it over, and attempted no
\* response.
C34_Witness ==
    /\ pass = 2
    /\ pc = "applyCards"
    /\ respLog = <<[to |-> "a", pass |-> 1, res |-> "failed"]>>
    /\ nRead = 1
    /\ received = 1
    /\ device_sync_messages = <<>>
    /\ contacts_added = 0
    /\ contacts["a"].n = 1

(* ------------------------------------------------------------------ *)
(* C35: the order of the three appliers                                *)
(* ------------------------------------------------------------------ *)
\* The pass has added the contact id from an exchange request.
AddedThisPass(id) ==
    \E i \in DOMAIN respLog : respLog[i].to = id /\ respLog[i].pass = pass

\* The appliers run one after the other: nothing of a later applier has
\* happened while an earlier one has work left.
AppliersInOrder ==
    /\ pc = "applyExchange" =>
         cards_updated = 0 /\ device_syncs_processed = 0
    /\ pc = "applyCards" =>
         exchange_messages = <<>> /\ device_syncs_processed = 0
    /\ pc = "applyDevSync" =>
         exchange_messages = <<>> /\ card_updates = <<>>
    /\ (cards_updated > 0 \/ device_syncs_processed > 0) =>
         exchange_messages = <<>>
    /\ device_syncs_processed > 0 => card_updates = <<>>

\* C35: the exchange applier has finished when the card-update applier
\* starts, and that one has finished when the device-sync applier starts,
\* in whatever order the frames arrived; so a card update of a sender the
\* pass has added from an exchange request meets a known contact: it is
\* handed to process_card_update and no unknown-contact warning is given.
C35_AppliersInOrder ==
    /\ []AppliersInOrder
    /\ [][(/\ pc = "applyCards"
           /\ card_updates # <<>>
           /\ AddedThisPass(Head(card_updates).sender)) =>
            LET u == Head(card_updates)
            IN  /\ card_sender_known(contacts, u.sender)
                /\ contacts' = process_card_update(contacts, u.sender,
                                                   u.outcome)
                /\ warnings' # Append(warnings, "unknown_contact")
                /\ pc' = "applyCards"]_vars

\* The pass drained an exchange request and a card update of "b", who was
\* no contact before: "b" was added and its card update was applied.
C35_Witness ==
    /\ pc = "applyDevSync"
    /\ nRead = 2
    /\ AddedThisPass("b")
    /\ contacts_added = 1
    /\ cards_updated = 1
    /\ contacts["b"].card = "upd"
    /\ \A i \in DOMAIN warnings : warnings[i] # "unknown_contact"

(* ------------------------------------------------------------------ *)
(* C36: frames the drain loop only looks at                            *)
(* ------------------------------------------------------------------ *)
\* An Acknowledgment, a DeviceSyncAck, a ping or a non-binary frame.
PassiveFrame(f) == f.kind \in {"ack", "devack", "ping", "text"}

\* C36: reading an Acknowledgment, a DeviceSyncAck, a ping or a non-binary
\* frame changes neither local state nor the pass result: the received
\* count, the collected lists, the pending-update store, the counters and
\* the warnings stay as they are, the loop goes on to the next read, and
\* nothing is sent in reply but a pong to a ping.
C36_PassiveFramesNoEffect ==
    [][(pc = "drain" /\ nRead' = nRead + 1 /\ PassiveFrame(lastRead')) =>
         /\ UNCHANGED <<persist, received, collected, applyCounters,
                        sendVars, warnings, summary, conns, sockOpen>>
         /\ pc' = "drain"
         /\ netLog' =
              netLog \o (IF lastRead'.kind = "ping"
                           THEN <<Ev("send", 1, "pong", "-")>>
                           ELSE <<>>)]_vars

(* ------------------------------------------------------------------ *)
(* C37, C38: what the send loop counts, deletes and leaves alone       *)
(* ------------------------------------------------------------------ *)
\* The entries the pass has removed from the pending-update store.
RemovedEntries == IF AfterCollect THEN collectedStore \ pendingStore ELSE {}

OtherKinds == {u \in collectedStore : u.type # "card_delta"}

\* C38: an entry whose kind is not card_delta is still in the store after
\* the send loop, as it was, and it was neither attempted, nor put on the
\* wire, nor counted.
C38_OtherKindsUntouched ==
    AfterCollect =>
      /\ OtherKinds \subseteq pendingStore
      /\ \A u \in OtherKinds :
           /\ \A i \in DOMAIN sendLog : sendLog[i].id # u.id
           /\ \A i \in DOMAIN netLog :
                netLog[i].kind = "update" => netLog[i].ref # u.id
      /\ updates_sent <=
           Cardinality({u \in collectedStore : u.type = "card_delta"})

\* A finished pass sent every card delta of "a"; what is left in the store
\* is the label_sync entry of "a".
C38_Witness ==
    /\ pc = "done"
    /\ updates_sent = MaxPending
    /\ pendingStore = {PendingEntry(MaxPending + 1, "a", "label_sync")}

====
